---- MODULE Spec2Model ----
(***************************************************************************)
(* Model of the Pulumi program in main.go (the second `package main` of    *)
(* src/main.go, lines 21-281): the declaration pass of the closure handed  *)
(* to pulumi.Run, the engine that realizes the registered resources in     *)
(* dependency order, and the two ApplyT callbacks (registry credentials,   *)
(* container definition).                                                  *)
(*                                                                         *)
(* Text (tokens, credentials, image references, JSON values) is a sequence *)
(* of ASCII codes; resource names and field tags are TLA+ strings.         *)
(***************************************************************************)
EXTENDS Integers, Sequences, FiniteSets, TLC

\* ------------------------------------------------------------------ bounds
MaxSubnets == 2
MaxPlainLen == 3
MaxRawLen == 2
MaxRefLen == 2

\* --------------------------------------------------------------- constants
SecurityGroupName == "web-sg"
EcsClusterName == "app-cluster"
TaskExecRoleName == "task-exec-role"
TaskExecPolicyName == "task-exec-policy"
EcrRepositoryName == "app-repo"
EcsTaskName == "app-task"
EcsServiceName == "app-service"
ImageName == "my-image"
LoadBalancerName == "web-lb"
LoadBalancerTargetGroupName == "web-tg"
LoadBalancerListenerName == "web-listener"
ReplicasCount == 5
\* "my-app"
ContainerName == <<109, 121, 45, 97, 112, 112>>

Colon == 58
Quote == 34
Backslash == 92
Pad == 61

RECURSIVE SeqsUpTo(_, _)
SeqsUpTo(S, n) ==
  IF n = 0 THEN {<<>>}
  ELSE LET shorter == SeqsUpTo(S, n - 1)
       IN shorter \cup {Append(s, x) : s \in shorter, x \in S}

\* ------------------------------------------------- encoding/base64 (Std)
\* The value of a character of the standard alphabet, -1 for any other.
B64Val(c) ==
  IF c >= 65 /\ c <= 90 THEN c - 65
  ELSE IF c >= 97 /\ c <= 122 THEN c - 71
  ELSE IF c >= 48 /\ c <= 57 THEN c + 4
  ELSE IF c = 43 THEN 62
  ELSE IF c = 47 THEN 63
  ELSE -1

B64Chr(v) ==
  IF v < 26 THEN v + 65
  ELSE IF v < 52 THEN v + 71
  ELSE IF v < 62 THEN v - 4
  ELSE IF v = 62 THEN 43
  ELSE 47

\* The AuthorizationToken the credential endpoint builds from "user:pass".
RECURSIVE EncodeToString(_)
EncodeToString(b) ==
  IF Len(b) = 0 THEN <<>>
  ELSE IF Len(b) = 1 THEN
    <<B64Chr(b[1] \div 4), B64Chr((b[1] % 4) * 16), Pad, Pad>>
  ELSE IF Len(b) = 2 THEN
    <<B64Chr(b[1] \div 4), B64Chr((b[1] % 4) * 16 + b[2] \div 16),
      B64Chr((b[2] % 16) * 4), Pad>>
  ELSE
    <<B64Chr(b[1] \div 4), B64Chr((b[1] % 4) * 16 + b[2] \div 16),
      B64Chr((b[2] % 16) * 4 + b[3] \div 64), B64Chr(b[3] % 64)>>
    \o EncodeToString(SubSeq(b, 4, Len(b)))

DecodeFail == [ok |-> FALSE, data |-> <<>>]

\* base64.StdEncoding.DecodeString: padded, four characters a quantum, "="
\* only closing the last quantum; anything else is a CorruptInputError.
RECURSIVE DecodeString(_)
DecodeString(s) ==
  IF Len(s) = 0 THEN [ok |-> TRUE, data |-> <<>>]
  ELSE IF Len(s) < 4 THEN DecodeFail
  ELSE
    LET v1 == B64Val(s[1])
        v2 == B64Val(s[2])
        v3 == B64Val(s[3])
        v4 == B64Val(s[4])
        rest == SubSeq(s, 5, Len(s))
        b1 == v1 * 4 + v2 \div 16
        b2 == (v2 % 16) * 16 + v3 \div 4
        b3 == (v3 % 4) * 64 + v4
    IN IF v1 < 0 \/ v2 < 0 THEN DecodeFail
       ELSE IF s[3] = Pad THEN
         IF s[4] = Pad /\ Len(rest) = 0
         THEN [ok |-> TRUE, data |-> <<b1>>] ELSE DecodeFail
       ELSE IF v3 < 0 THEN DecodeFail
       ELSE IF s[4] = Pad THEN
         IF Len(rest) = 0
         THEN [ok |-> TRUE, data |-> <<b1, b2>>] ELSE DecodeFail
       ELSE IF v4 < 0 THEN DecodeFail
       ELSE LET more == DecodeString(rest)
            IN IF more.ok
               THEN [ok |-> TRUE, data |-> <<b1, b2, b3>> \o more.data]
               ELSE DecodeFail

\* strings.Split(s, ":"): one part more than there are colons.
RECURSIVE SplitFrom(_, _, _)
SplitFrom(s, i, part) ==
  IF i > Len(s) THEN <<part>>
  ELSE IF s[i] = Colon THEN <<part>> \o SplitFrom(s, i + 1, <<>>)
  ELSE SplitFrom(s, i + 1, Append(part, s[i]))

Split(s) == SplitFrom(s, 1, <<>>)

\* StringArrayOutput.Index: the element, or the zero string out of range.
Index(arr, i) == IF i >= 0 /\ i < Len(arr) THEN arr[i + 1] ELSE <<>>

CountColons(s) == Cardinality({i \in 1..Len(s) : s[i] = Colon})

\* ------------------------------------------- fmt %q and the JSON it meets
HexDigit(n) == IF n < 10 THEN 48 + n ELSE 87 + n

\* strconv.Quote of one ASCII character.
QuoteChar(c) ==
  IF c = Quote \/ c = Backslash THEN <<Backslash, c>>
  ELSE IF c = 7 THEN <<Backslash, 97>>
  ELSE IF c = 8 THEN <<Backslash, 98>>
  ELSE IF c = 12 THEN <<Backslash, 102>>
  ELSE IF c = 10 THEN <<Backslash, 110>>
  ELSE IF c = 13 THEN <<Backslash, 114>>
  ELSE IF c = 9 THEN <<Backslash, 116>>
  ELSE IF c = 11 THEN <<Backslash, 118>>
  ELSE IF c < 32 \/ c = 127 THEN
    <<Backslash, 120, HexDigit(c \div 16), HexDigit(c % 16)>>
  ELSE <<c>>

RECURSIVE QuoteBody(_)
QuoteBody(s) ==
  IF Len(s) = 0 THEN <<>> ELSE QuoteChar(s[1]) \o QuoteBody(Tail(s))

\* fmt's %q verb on a string.
GoQuote(s) == <<Quote>> \o QuoteBody(s) \o <<Quote>>

JsonFail == [ok |-> FALSE, s |-> <<>>]

HexVal(c) ==
  IF c >= 48 /\ c <= 57 THEN c - 48
  ELSE IF c >= 97 /\ c <= 102 THEN c - 87
  ELSE IF c >= 65 /\ c <= 70 THEN c - 55
  ELSE -1

\* What a backslash escape stands for in JSON, -1 when JSON has no such escape.
JsonEscape(e) ==
  IF e = Quote \/ e = Backslash \/ e = 47 THEN e
  ELSE IF e = 98 THEN 8
  ELSE IF e = 102 THEN 12
  ELSE IF e = 110 THEN 10
  ELSE IF e = 114 THEN 13
  ELSE IF e = 116 THEN 9
  ELSE -1

\* The characters between the quotes of a JSON string, as a JSON decoder
\* reads them.
RECURSIVE JsonBody(_)
JsonBody(b) ==
  IF Len(b) = 0 THEN [ok |-> TRUE, s |-> <<>>]
  ELSE IF b[1] = Quote \/ b[1] < 32 THEN JsonFail
  ELSE IF b[1] # Backslash THEN
    LET more == JsonBody(Tail(b))
    IN IF more.ok THEN [ok |-> TRUE, s |-> <<b[1]>> \o more.s] ELSE JsonFail
  ELSE IF Len(b) < 2 THEN JsonFail
  ELSE IF b[2] = 117 THEN
    IF Len(b) < 6 THEN JsonFail
    ELSE LET h1 == HexVal(b[3])
             h2 == HexVal(b[4])
             h3 == HexVal(b[5])
             h4 == HexVal(b[6])
             more == JsonBody(SubSeq(b, 7, Len(b)))
         IN IF h1 < 0 \/ h2 < 0 \/ h3 < 0 \/ h4 < 0 \/ ~more.ok THEN JsonFail
            ELSE [ok |-> TRUE,
                  s |-> <<h1 * 4096 + h2 * 256 + h3 * 16 + h4>> \o more.s]
  ELSE IF JsonEscape(b[2]) < 0 THEN JsonFail
  ELSE LET more == JsonBody(SubSeq(b, 3, Len(b)))
       IN IF more.ok THEN [ok |-> TRUE, s |-> <<JsonEscape(b[2])>> \o more.s]
          ELSE JsonFail

\* A JSON string token decoded.
JsonString(raw) ==
  IF Len(raw) < 2 \/ raw[1] # Quote \/ raw[Len(raw)] # Quote THEN JsonFail
  ELSE JsonBody(SubSeq(raw, 2, Len(raw) - 1))


\* --------------------------------------------------------- output handles
\* A plain input, known when the resource is declared.
Plain(v) == [kind |-> "plain", deps |-> {}, via |-> "none", v |-> v]

\* An attribute of a resource, known once the resource is realized.
Output(res, attr) ==
  [kind |-> "output", deps |-> {res}, via |-> "attr", res |-> res, attr |-> attr]

\* o.ApplyT(f): a derived output that keeps o's dependencies.
ApplyT(o, f) == [kind |-> "output", deps |-> o.deps, via |-> f, index |-> -1]

\* o.Index(i) on the output of an ApplyT.
IndexOf(o, i) == [kind |-> "output", deps |-> o.deps, via |-> o.via, index |-> i]

\* toPulumiStringArray: the loop appends pulumi.String(s) for each s of a.
PulumiString(s) == [String |-> s]

RECURSIVE toPulumiStringArrayLoop(_, _, _)
toPulumiStringArrayLoop(a, i, res) ==
  IF i > Len(a) THEN res
  ELSE toPulumiStringArrayLoop(a, i + 1, Append(res, PulumiString(a[i])))

\* Mutant of toPulumiStringArray: each element is put in front of the result.
RECURSIVE toPulumiStringArrayPrepend(_, _, _)
toPulumiStringArrayPrepend(a, i, res) ==
  IF i > Len(a) THEN res
  ELSE toPulumiStringArrayPrepend(a, i + 1, <<PulumiString(a[i])>> \o res)

toPulumiStringArrayReversed(a) == toPulumiStringArrayPrepend(a, 1, <<>>)

toPulumiStringArray(a) == toPulumiStringArrayLoop(a, 1, <<>>)

\* The []string a pulumi.StringArray of plain strings holds.
StringsOf(arr) == [i \in 1..Len(arr) |-> arr[i].String]

\* ------------------------------------------------------------------ state
VARIABLES
  world,         \* what the external services answer: subnets, token, ref
  pc,            \* the call the closure of main is about to make
  err,           \* main's variable err
  result,        \* what the closure returned: "running", NoErr or an error
  subnet,        \* subnet.Ids, the looked-up subnet list
  registered,    \* resource name -> [args, dependsOn], as declared
  exports,       \* ctx.Export: output name -> handle
  realized,      \* the resources the engine has realized
  repoCreds,     \* the ApplyT of line 128: [state, value]
  pushedWith,    \* the credentials the image build/push was invoked with
  imageName,     \* image.ImageName, the pushed image reference
  containerDef,  \* the ApplyT of line 161: [state, value]
  engineFailed   \* a realization failed

vars == <<world, pc, err, result, subnet, registered, exports, realized,
          repoCreds, pushedWith, imageName, containerDef, engineFailed>>

NoErr == "nil"
VpcId == "vpc-default"

\* ------------------------------------------------------ the inputs drawn
SubnetNames == {"subnet-a", "subnet-b"}
SubnetLists == SeqsUpTo(SubnetNames, MaxSubnets)
DefaultSubnets == <<"subnet-a", "subnet-b">>

\* ':' 'A' 'b'
PlainChars == {Colon, 65, 98}
Plains == SeqsUpTo(PlainChars, MaxPlainLen)
\* 'Q' '=' ':' : none of these up to three characters long is base64
RawChars == {81, Pad, Colon}
RawTokens == SeqsUpTo(RawChars, MaxRawLen)
Tokens == {EncodeToString(p) : p \in Plains} \cup RawTokens
\* base64("A:b")
DefaultToken == EncodeToString(<<65, Colon, 98>>)

\* 'a' '"' BEL '\'
RefChars == {97, Quote, 7, Backslash}
Refs == SeqsUpTo(RefChars, MaxRefLen) \ {<<>>}
DefaultRef == <<97>>

\* ------------------------------------------------ arguments, as declared
NewSecurityGroupArgs ==
  [VpcId |-> Plain(VpcId),
   Egress |-> Plain(<<[Protocol |-> "-1", FromPort |-> 0, ToPort |-> 0,
                       CidrBlocks |-> <<"0.0.0.0/0">>]>>),
   Ingress |-> Plain(<<[Protocol |-> "tcp", FromPort |-> 80, ToPort |-> 80,
                        CidrBlocks |-> <<"0.0.0.0/0">>]>>)]

NewClusterArgs == [none |-> Plain("nil")]

NewRoleArgs == [AssumeRolePolicy |-> Plain("ecs-tasks.amazonaws.com")]

NewRolePolicyAttachmentArgs ==
  [Role |-> Output(TaskExecRoleName, "name"),
   PolicyArn |-> Plain("AmazonECSTaskExecutionRolePolicy")]

NewLoadBalancerArgs ==
  [Subnets |-> Plain(toPulumiStringArray(subnet)),
   SecurityGroups |-> Output(SecurityGroupName, "id")]

NewTargetGroupArgs ==
  [Port |-> Plain(80), Protocol |-> Plain("HTTP"),
   TargetType |-> Plain("ip"), VpcId |-> Plain(VpcId)]

\* Mutant of NewListenerArgs: the forward action names the target group by a
\* literal, not by the target group's output.
NewListenerArgsLiteralTarget ==
  [LoadBalancerArn |-> Output(LoadBalancerName, "arn"),
   Port |-> Plain(80),
   DefaultActions_0_Type |-> Plain("forward"),
   DefaultActions_0_TargetGroupArn |-> Plain("arn:web-tg")]

NewListenerArgs ==
  [LoadBalancerArn |-> Output(LoadBalancerName, "arn"),
   Port |-> Plain(80),
   DefaultActions_0_Type |-> Plain("forward"),
   DefaultActions_0_TargetGroupArn |-> Output(LoadBalancerTargetGroupName, "arn")]

NewRepositoryArgs == [none |-> Plain("{}")]

\* repoCreds, repoUser and repoPass of pushImageAndGetContainerDef
RepoCredsOutput == ApplyT(Output(EcrRepositoryName, "registryId"), "repoCreds")
\* Mutant of RepoUser: the user name is read at index 1.
RepoUserAtOne == IndexOf(RepoCredsOutput, 1)
RepoUser == IndexOf(RepoCredsOutput, 0)
RepoPass == IndexOf(RepoCredsOutput, 1)

NewImageArgs ==
  [Build_Context |-> Plain(".."),
   ImageName |-> Output(EcrRepositoryName, "repositoryUrl"),
   Registry_Server |-> Output(EcrRepositoryName, "repositoryUrl"),
   Registry_Username |-> RepoUser,
   Registry_Password |-> RepoPass]

ContainerDefOutput == ApplyT(Output(ImageName, "imageName"), "containerDef")

NewTaskDefinitionArgs ==
  [Family |-> Plain("fargate-task-definition"),
   Cpu |-> Plain("256"),
   Memory |-> Plain("512"),
   NetworkMode |-> Plain("awsvpc"),
   RequiresCompatibilities |-> Plain(<<"FARGATE">>),
   ExecutionRoleArn |-> Output(TaskExecRoleName, "arn"),
   ContainerDefinitions |-> ContainerDefOutput]

NewServiceArgs ==
  [Cluster |-> Output(EcsClusterName, "arn"),
   DesiredCount |-> Plain(ReplicasCount),
   LaunchType |-> Plain("FARGATE"),
   TaskDefinition |-> Output(EcsTaskName, "arn"),
   NetworkConfiguration_AssignPublicIp |-> Plain(TRUE),
   NetworkConfiguration_Subnets |-> Plain(toPulumiStringArray(subnet)),
   NetworkConfiguration_SecurityGroups |-> Output(SecurityGroupName, "id"),
   LoadBalancers_0_TargetGroupArn |-> Output(LoadBalancerTargetGroupName, "arn"),
   LoadBalancers_0_ContainerName |-> Plain(ContainerName),
   LoadBalancers_0_ContainerPort |-> Plain(80)]

\* Mutant of NewServiceDependsOn: the DependsOn option is left out.
NewServiceNoDependsOn == {}

\* pulumi.DependsOn of the service
NewServiceDependsOn == {LoadBalancerListenerName}

\* Mutant of UrlOutput: the load balancer's ARN is exported.
UrlOutputArn == Output(LoadBalancerName, "arn")

\* ctx.Export("url", loadBalancer.DnsName)
UrlOutput == Output(LoadBalancerName, "dnsName")

\* Mutant of Sprintf: the template names the container "app".
SprintfOtherName(name) ==
  <<[name |-> <<Quote, 97, 112, 112, Quote>>,
     image |-> GoQuote(name),
     portMappings |-> <<[containerPort |-> 80, hostPort |-> 80,
                         protocol |-> "tcp"]>>]>>

\* fmt.Sprintf(fmtstr, name): a one-element array; the name and the port
\* mapping are the template's literals, the image is name under %q.
Sprintf(name) ==
  <<[name |-> <<Quote, 109, 121, 45, 97, 112, 112, Quote>>,
     image |-> GoQuote(name),
     portMappings |-> <<[containerPort |-> 80, hostPort |-> 80,
                         protocol |-> "tcp"]>>]>>

\* ---------------------------------------------------- the dependency graph
\* The resources a declaration references through its inputs.
DepsOf(args) == UNION {args[f].deps : f \in DOMAIN args}

\* Every resource r must wait for: input references and DependsOn.
Edges(r) == DepsOf(registered[r].args) \cup registered[r].dependsOn

Declared == DOMAIN registered

\* ---------------------------------------------------------------- Init
InitWith(subnetLists, tokens, refs) ==
  /\ world \in [subnets : subnetLists, token : tokens, ref : refs]
  /\ pc = "getDefaultVPC"
  /\ err = NoErr
  /\ result = "running"
  /\ subnet = <<>>
  /\ registered = [r \in {} |-> [args |-> <<>>, dependsOn |-> {}]]
  /\ exports = [n \in {} |-> Plain("")]
  /\ realized = {}
  /\ repoCreds = [state |-> "none", value |-> <<>>]
  /\ pushedWith = [invoked |-> FALSE, Username |-> <<>>, Password |-> <<>>]
  /\ imageName = <<>>
  /\ containerDef = [state |-> "none", value |-> <<>>]
  /\ engineFailed = FALSE

Init == InitWith(SubnetLists, {DefaultToken}, {DefaultRef})
CredInit == InitWith({DefaultSubnets}, Tokens, {DefaultRef})
DefInit == InitWith({DefaultSubnets}, {DefaultToken}, Refs)

\* ------------------------------------------------- the declaration pass
engineVars == <<realized, repoCreds, pushedWith, imageName, containerDef,
                engineFailed>>

\* `if err != nil { return err }`
ReturnErr(e) == err' = e /\ result' = e /\ pc' = "returned"

Register(name, args, dependsOn) ==
  registered' = registered @@ (name :> [args |-> args, dependsOn |-> dependsOn])

\* One checked declaration: registered and on to the next call, or the
\* error returned.
Declare(at, next, name, args, e) ==
  /\ pc = at
  /\ \/ /\ Register(name, args, {})
        /\ err' = NoErr
        /\ pc' = next
        /\ UNCHANGED result
     \/ /\ ReturnErr(e)
        /\ UNCHANGED registered
  /\ UNCHANGED <<world, subnet, exports, engineVars>>

getDefaultVPC ==
  /\ pc = "getDefaultVPC"
  /\ \/ /\ err' = NoErr
        /\ pc' = "newSecurityGroup"
        /\ UNCHANGED result
     \/ ReturnErr("LookupVpc failed")
  /\ UNCHANGED <<world, subnet, registered, exports, engineVars>>

newSecurityGroup ==
  Declare("newSecurityGroup", "NewCluster", SecurityGroupName,
          NewSecurityGroupArgs, "NewSecurityGroup failed")

NewCluster ==
  Declare("NewCluster", "NewRole", EcsClusterName, NewClusterArgs,
          "NewCluster failed")

NewRole ==
  Declare("NewRole", "NewRolePolicyAttachment", TaskExecRoleName, NewRoleArgs,
          "NewRole failed")

NewRolePolicyAttachment ==
  Declare("NewRolePolicyAttachment", "GetSubnetIds", TaskExecPolicyName,
          NewRolePolicyAttachmentArgs, "NewRolePolicyAttachment failed")

GetSubnetIds ==
  /\ pc = "GetSubnetIds"
  /\ \/ /\ subnet' = world.subnets
        /\ err' = NoErr
        /\ pc' = "NewLoadBalancer"
        /\ UNCHANGED result
     \/ /\ ReturnErr("GetSubnetIds failed")
        /\ UNCHANGED subnet
  /\ UNCHANGED <<world, registered, exports, engineVars>>

NewLoadBalancer ==
  Declare("NewLoadBalancer", "NewTargetGroup", LoadBalancerName,
          NewLoadBalancerArgs, "NewLoadBalancer failed")

NewTargetGroup ==
  Declare("NewTargetGroup", "NewListener", LoadBalancerTargetGroupName,
          NewTargetGroupArgs, "NewTargetGroup failed")

NewListener ==
  Declare("NewListener", "NewRepository", LoadBalancerListenerName,
          NewListenerArgs, "NewListener failed")

NewRepository ==
  Declare("NewRepository", "pushImageAndGetContainerDef", EcrRepositoryName,
          NewRepositoryArgs, "NewRepository failed")

\* The two ApplyT calls register callbacks; only docker.NewImage can fail.
pushImageAndGetContainerDef ==
  /\ pc = "pushImageAndGetContainerDef"
  /\ repoCreds' = [repoCreds EXCEPT !.state = "pending"]
  /\ \/ /\ Register(ImageName, NewImageArgs, {})
        /\ containerDef' = [containerDef EXCEPT !.state = "pending"]
        /\ err' = NoErr
        /\ pc' = "NewTaskDefinition"
        /\ UNCHANGED result
     \/ /\ ReturnErr("NewImage failed")
        /\ UNCHANGED <<registered, containerDef>>
  /\ UNCHANGED <<world, subnet, exports, realized, pushedWith, imageName,
                 engineFailed>>

NewTaskDefinition ==
  Declare("NewTaskDefinition", "NewService", EcsTaskName,
          NewTaskDefinitionArgs, "NewTaskDefinition failed")

\* `_, err = ecs.NewService(...)`: err is assigned and not tested.
NewService ==
  /\ pc = "NewService"
  /\ \/ /\ Register(EcsServiceName, NewServiceArgs, NewServiceDependsOn)
        /\ err' = NoErr
     \/ /\ err' = "NewService failed"
        /\ UNCHANGED registered
  /\ pc' = "Export"
  /\ UNCHANGED <<world, result, subnet, exports, engineVars>>

\* ctx.Export("url", loadBalancer.DnsName); return nil
Export ==
  /\ pc = "Export"
  /\ exports' = exports @@ ("url" :> UrlOutput)
  /\ result' = NoErr
  /\ pc' = "returned"
  /\ UNCHANGED <<world, err, subnet, registered, engineVars>>

\* ------------------------------------------------------------ the engine
\* The deployment is still going: nothing has failed.
Alive ==
  /\ ~engineFailed
  /\ result \in {"running", NoErr}
  /\ repoCreds.state # "failed"

\* An input's value is known.
Ready(h) ==
  /\ h.deps \subseteq realized
  /\ h.via = "repoCreds" => repoCreds.state = "resolved"
  /\ h.via = "containerDef" => containerDef.state = "resolved"

\* The engine may realize r: every input known, every DependsOn realized.
CanRealize(r) ==
  /\ r \in Declared \ realized
  /\ \A f \in DOMAIN registered[r].args : Ready(registered[r].args[f])
  /\ registered[r].dependsOn \subseteq realized

\* The engine realizes one resource; the image's realization is the build
\* and push, invoked with the registry credentials its inputs resolve to.
Realize(r) ==
  /\ Alive
  /\ CanRealize(r)
  /\ IF r = ImageName
     THEN pushedWith' =
            [invoked |-> TRUE,
             Username |-> Index(repoCreds.value,
                                registered[r].args.Registry_Username.index),
             Password |-> Index(repoCreds.value,
                                registered[r].args.Registry_Password.index)]
     ELSE UNCHANGED pushedWith
  /\ \/ /\ realized' = realized \cup {r}
        /\ imageName' = IF r = ImageName THEN world.ref ELSE imageName
        /\ UNCHANGED engineFailed
     \/ /\ engineFailed' = TRUE
        /\ UNCHANGED <<realized, imageName>>
  /\ UNCHANGED <<world, pc, err, result, subnet, registered, exports,
                 repoCreds, containerDef>>

RealizeSome == \E r \in Declared : Realize(r)

\* The callback of line 128, run once the repository's registry id is known.
ApplyRepoCreds ==
  /\ Alive
  /\ repoCreds.state = "pending"
  /\ RepoCredsOutput.deps \subseteq realized
  /\ \/ repoCreds' = [state |-> "failed", value |-> <<>>]
     \/ LET data == DecodeString(world.token)
        IN IF ~data.ok
           THEN repoCreds' = [state |-> "failed", value |-> <<>>]
           ELSE repoCreds' = [state |-> "resolved", value |-> Split(data.data)]
  /\ UNCHANGED <<world, pc, err, result, subnet, registered, exports, realized,
                 pushedWith, imageName, containerDef, engineFailed>>

\* The callback of line 161, run once the image's name is known.
ApplyContainerDef ==
  /\ Alive
  /\ containerDef.state = "pending"
  /\ ContainerDefOutput.deps \subseteq realized
  /\ containerDef' = [state |-> "resolved", value |-> Sprintf(imageName)]
  /\ UNCHANGED <<world, pc, err, result, subnet, registered, exports, realized,
                 repoCreds, pushedWith, imageName, engineFailed>>

Next ==
  \/ getDefaultVPC
  \/ newSecurityGroup
  \/ NewCluster
  \/ NewRole
  \/ NewRolePolicyAttachment
  \/ GetSubnetIds
  \/ NewLoadBalancer
  \/ NewTargetGroup
  \/ NewListener
  \/ NewRepository
  \/ pushImageAndGetContainerDef
  \/ NewTaskDefinition
  \/ NewService
  \/ Export
  \/ RealizeSome
  \/ ApplyRepoCreds
  \/ ApplyContainerDef

Spec == Init /\ [][Next]_vars
CredSpec == CredInit /\ [][Next]_vars
DefSpec == DefInit /\ [][Next]_vars
FairSpec == Init /\ [][Next]_vars /\ WF_vars(Next)

\* ================================================================ claims
AllResources ==
  {SecurityGroupName, EcsClusterName, TaskExecRoleName, TaskExecPolicyName,
   LoadBalancerName, LoadBalancerTargetGroupName, LoadBalancerListenerName,
   EcrRepositoryName, ImageName, EcsTaskName, EcsServiceName}

\* C1: the service (app-service) is never realized before the listener
\* (web-listener) has been realized, whatever order the engine picks among
\* the resources whose references and DependsOn are satisfied.
C1_ServiceAfterListener ==
  EcsServiceName \in realized => LoadBalancerListenerName \in realized

C1_Witness ==
  /\ EcsServiceName \in realized
  /\ LoadBalancerListenerName \in realized

\* C2: when the service is realized, the security group, the role, the
\* role's managed-policy attachment and the repository have all been
\* realized.
C2_BuildersBeforeService ==
  EcsServiceName \in realized =>
    {SecurityGroupName, TaskExecRoleName, TaskExecPolicyName,
     EcrRepositoryName} \subseteq realized

\* C3: every error is fatal to the declaration pass: once the pass has
\* ended with err set by a failed lookup or declaration, that error is what
\* the pass returned and "url" was not exported.
C3_EveryErrorFatal ==
  (pc = "returned" /\ err # NoErr) =>
    (result = err /\ "url" \notin DOMAIN exports)

\* C4: for every token that is not valid base64, or whose decoded text does
\* not hold exactly one colon, credential decoding fails: no credential
\* list is produced and the image build/push is not invoked.
C4_MalformedTokenFails ==
  LET data == DecodeString(world.token)
  IN (~data.ok \/ CountColons(data.data) # 1) =>
       (repoCreds.state # "resolved" /\ ~pushedWith.invoked)

\* The colon-free texts, and the tokens base64(user ":" pass) within bounds.
ColonFree == SeqsUpTo(PlainChars \ {Colon}, MaxPlainLen)

PairTokens ==
  {<<EncodeToString(u \o <<Colon>> \o p), u, p>> :
     <<u, p>> \in {q \in ColonFree \X ColonFree :
                     Len(q[1]) + Len(q[2]) < MaxPlainLen}}

\* C5: for every token base64(user ":" pass) with user and pass colon-free,
\* the credential transformation yields exactly <<user, pass>> and the image
\* build/push is invoked with Username = user and Password = pass.
C5_ValidTokenYieldsPair ==
  (repoCreds.state = "resolved" \/ pushedWith.invoked) =>
    \A t \in PairTokens :
      world.token = t[1] =>
        /\ repoCreds.state = "resolved" /\ repoCreds.value = <<t[2], t[3]>>
        /\ pushedWith.invoked =>
             (pushedWith.Username = t[2] /\ pushedWith.Password = t[3])

\* base64("A:b") pushed as user "A", password "b"
C5_Witness ==
  /\ world.token = EncodeToString(<<65, Colon, 98>>)
  /\ ImageName \in realized
  /\ pushedWith = [invoked |-> TRUE, Username |-> <<65>>, Password |-> <<98>>]

\* C6: the service's load-balancer attachment names the container and the
\* port that the container definition document embeds, for any pushed image
\* reference.
C6_AttachmentMatchesDocument ==
  (containerDef.state = "resolved" /\ EcsServiceName \in Declared) =>
    LET doc == containerDef.value
        a == registered[EcsServiceName].args
    IN /\ Len(doc) = 1
       /\ JsonString(doc[1].name) =
            [ok |-> TRUE, s |-> a.LoadBalancers_0_ContainerName.v]
       /\ Len(doc[1].portMappings) = 1
       /\ doc[1].portMappings[1].containerPort = a.LoadBalancers_0_ContainerPort.v

\* the document of an image reference that needs quoting, beside the service
C6_Witness ==
  /\ containerDef.state = "resolved"
  /\ EcsServiceName \in realized
  /\ world.ref = <<97, Quote>>
  /\ registered[EcsServiceName].args.LoadBalancers_0_ContainerName.v = ContainerName

\* C7: for any non-empty pushed image reference the container definition
\* document is a one-element sequence whose element has containerPort 80,
\* hostPort 80 and an image field equal to the reference, and the task
\* definition is handed the handle of that one derivation.
C7_DocumentHoldsReference ==
  containerDef.state = "resolved" =>
    LET doc == containerDef.value
    IN /\ Len(doc) = 1
       /\ doc[1].portMappings[1].containerPort = 80
       /\ doc[1].portMappings[1].hostPort = 80
       /\ JsonString(doc[1].image) = [ok |-> TRUE, s |-> world.ref]
       /\ EcsTaskName \in Declared =>
            registered[EcsTaskName].args.ContainerDefinitions = ContainerDefOutput

\* C8: the subnet list handed to the load balancer and the one in the
\* service's network configuration both equal the looked-up list: same
\* elements, same order, same length.
C8_SubnetsPreserved ==
  /\ LoadBalancerName \in Declared =>
       StringsOf(registered[LoadBalancerName].args.Subnets.v) = world.subnets
  /\ EcsServiceName \in Declared =>
       StringsOf(registered[EcsServiceName].args.NetworkConfiguration_Subnets.v)
         = world.subnets

C8_Witness ==
  /\ EcsServiceName \in Declared
  /\ world.subnets = <<"subnet-a", "subnet-b">>
  /\ StringsOf(registered[EcsServiceName].args.NetworkConfiguration_Subnets.v)
       = <<"subnet-a", "subnet-b">>

\* C9, as stated: the target group is not realized before the load balancer
\* and the security group, and the listener is not realized before the
\* target group, the load balancer and the security group.
C9_SequentialChain ==
  /\ LoadBalancerTargetGroupName \in realized =>
       {LoadBalancerName, SecurityGroupName} \subseteq realized
  /\ LoadBalancerListenerName \in realized =>
       {LoadBalancerTargetGroupName, LoadBalancerName, SecurityGroupName}
         \subseteq realized

\* C9, amended: the load balancer is not realized before the security
\* group, and the listener is not realized before the target group, the
\* load balancer and the security group; the target group waits for neither.
C9_ListenerAfterChain ==
  /\ LoadBalancerName \in realized => SecurityGroupName \in realized
  /\ LoadBalancerListenerName \in realized =>
       {LoadBalancerTargetGroupName, LoadBalancerName, SecurityGroupName}
         \subseteq realized

C9_Witness ==
  /\ LoadBalancerListenerName \in realized
  /\ EcsServiceName \notin realized

\* The resources reachable from S along at most n more edges.
RECURSIVE ReachFrom(_, _)
ReachFrom(S, n) ==
  IF n = 0 THEN S
  ELSE ReachFrom(S \cup UNION {Edges(r) : r \in S \cap Declared}, n - 1)

Acyclic ==
  \A r \in Declared : r \notin ReachFrom(Edges(r), Cardinality(Declared))

Failed ==
  \/ err # NoErr
  \/ result \notin {"running", NoErr}
  \/ engineFailed
  \/ repoCreds.state = "failed"

Completed ==
  /\ realized = AllResources
  /\ "url" \in DOMAIN exports
  /\ exports["url"] = Output(LoadBalancerName, "dnsName")
  /\ Ready(exports["url"])

\* C10: the declared graph (input references plus the listener-to-service
\* DependsOn edge) is acyclic, and unless a lookup, declaration or
\* realization fails, every declared resource is eventually realized and
\* "url" eventually resolves to the load balancer's DNS name.
C10_AcyclicAndCompletes == []Acyclic /\ <>(Failed \/ Completed)

C10_Witness ==
  /\ Completed
  /\ ~Failed
  /\ Acyclic

====
